---------------------------- MODULE Spec2Model ----------------------------
(***************************************************************************)
(* Vanity wallet generator (src/src/main.rs, wallet_generator.rs, db.rs).  *)
(*                                                                         *)
(* main connects to the store, spawns config.threads worker tasks that run *)
(* wallet_generation_loop over two shared atomic counters and one shared   *)
(* Mutex<MongoDBClient>, spawns a liveness monitor, and then awaits the    *)
(* worker handles in order.                                                *)
(*                                                                         *)
(* An address is a sequence of one-character strings.  A keypair is        *)
(* identified by the address of its public key.                            *)
(***************************************************************************)
EXTENDS Naturals, Sequences, FiniteSets

\* ------------------------------------------------------------------
\* Bounds of the model
\* ------------------------------------------------------------------

\* config.threads: the number of worker tasks main spawns.
NumThreads == 2

\* Cap on the shared generated counter (an AtomicUsize in the program).
MaxGenerated == 2

\* Cap on the number of save_wallet calls the store fails in one run.
MaxFailures == 3

\* main.rs:59 reports progress when count % 100000 == 0; the interval is
\* scaled down so that boundaries fall below the caps on the counter.
ProgressEvery == 2

\* main.rs:131 yields when counter % 1000 == 0; scaled down likewise.
YieldEvery == 2

\* Longest address the predicate is applied to under PredSpec.
MaxAddrLen == 5

\* Cap on the shared generated counter under CountSpec, where the store
\* accepts every insert.
MaxCounted == 3

\* ------------------------------------------------------------------
\* Program constants
\* ------------------------------------------------------------------

\* main.rs:100  const MAX_RETRIES: usize = 3;
MAX_RETRIES == 3

\* main.rs:121  500 * retry_count milliseconds of backoff.
BackoffBaseMs == 500

Threads == 1..NumThreads

Alphabet == {"p", "u", "m", "P", "x"}

\* wallet_generator.rs:27  the literal the predicate compares against.
HardcodedSuffix == <<"p", "u", "m", "p">>

\* main.rs:39  default_value = "pump" of --suffix.
DefaultSuffix == <<"p", "u", "m", "p">>

\* Values of --suffix the predicate is probed with.
Suffixes ==
    { <<"p", "u", "m", "p">>, <<"P", "u", "m", "p">>, <<"u", "m", "p">>,
      <<"m", "x">>, <<"x">>, <<>> }

SeqsUpTo(S, n) == UNION { [1..k -> S] : k \in 0..n }

\* Addresses the predicate is probed with.
Addresses == SeqsUpTo(Alphabet, MaxAddrLen)

\* Addresses Keypair::new() yields in the concurrent model: one that ends in
\* "pump", one that ends in "Pump" (case differs), one that ends otherwise.
WalletPool ==
    { <<"x", "p", "u", "m", "p">>, <<"x", "P", "u", "m", "p">>,
      <<"p", "u", "m", "x">> }

NoWallet == <<>>

\* str::ends_with: the last Len(suf) characters of s are suf.
EndsWith(s, suf) ==
    /\ Len(suf) <= Len(s)
    /\ \A i \in 1..Len(suf) : s[Len(s) - Len(suf) + i] = suf[i]

\* WalletGenerator::new(_suffix): the suffix is dropped, the struct is empty.
WalletGenerator_new(cfgSuffix) == [unit |-> TRUE]

\* Mutant of is_vanity_wallet: the address is lowercased before the test.
is_vanity_wallet_IgnoreCase(self, pubkey) ==
    EndsWith([i \in 1..Len(pubkey) |-> IF pubkey[i] = "P" THEN "p" ELSE pubkey[i]],
             HardcodedSuffix)

\* WalletGenerator::is_vanity_wallet(&self, keypair), on the keypair's address.
is_vanity_wallet(self, pubkey) == EndsWith(pubkey, HardcodedSuffix)

\* WalletGenerator::get_private_key_string: base58 of the keypair's bytes,
\* a function of the keypair alone.
get_private_key_string(keypair) == <<"bs58", keypair>>

\* The WalletDocument save_wallet builds for a keypair when Utc::now() reads t.
WalletDocument(keypair, t) ==
    [public_key |-> keypair,
     private_key |-> get_private_key_string(keypair),
     created_at |-> t]


\* ------------------------------------------------------------------
\* State
\* ------------------------------------------------------------------

VARIABLES
    mainPc,         \* where main is: connect, spawn, spawn_monitor, await, done, exit_err
    dbResult,       \* outcome of MongoDBClient::new: none, ok, parse_error, ping_error
    spawned,        \* number of worker tasks spawned so far
    awaitIdx,       \* index of the handle main is awaiting
    active_threads, \* main.rs:224
    tick,           \* what the monitor's last tick saw and logged
    counter,        \* main.rs:180  generated wallets
    found_wallets,  \* main.rs:181  matched wallets
    dbLock,         \* holder of the Mutex<MongoDBClient> guard, 0 when free
    store,          \* documents inserted in the collection
    saveCalls,      \* number of save_wallet calls begun
    failures,       \* number of save_wallet calls the store has failed
    pc,             \* per worker: position in its task
    wallet,         \* per worker: the keypair of the current iteration
    count,          \* per worker: value returned by its last counter.fetch_add
    total_found,    \* per worker: main.rs:82  found_wallets.fetch_add(1) + 1
    total_generated,\* per worker: main.rs:83  counter.load()
    retry_count,    \* per worker: main.rs:99
    attempts,       \* per worker: save_wallet calls of the current match
    slept,          \* per worker: milliseconds slept in backoff for the current match
    report,         \* per worker: log lines of the current match's retry loop
    progressLog,    \* the Generated values of the progress updates logged, in order
    progress_found, \* per worker: main.rs:60  found_wallets.load()
    rate,           \* per worker: the success-rate division last computed
    unyielded,      \* per worker: iterations completed since its last yield
    probe           \* the predicate applied to one address under one --suffix

workerVars ==
    <<pc, wallet, count, progress_found, total_found, total_generated,
      retry_count, attempts, slept, report, rate, unyielded>>

mainVars == <<mainPc, dbResult, spawned, awaitIdx, active_threads, tick>>

sharedVars ==
    <<counter, found_wallets, dbLock, store, saveCalls, failures, progressLog>>

vars == <<mainVars, sharedVars, workerVars, probe>>

NoTick == [taken |-> FALSE]

NoProbe == [applied |-> FALSE]

NoReport == [saved |-> 0, exhausted |-> 0, retrying |-> 0]

\* No success rate has been computed in the current scope.
NoRate == [computed |-> FALSE, divisor |-> 0, quotient |-> 0]

\* n / d on usize: the quotient, rounded down.  A zero divisor panics the
\* task; the divisor is kept so that this case shows in the state.
Divide(n, d) ==
    [computed |-> TRUE, divisor |-> d, quotient |-> IF d = 0 THEN 0 ELSE n \div d]

\* The state when main is entered: nothing connected, nothing spawned.
Init ==
    /\ mainPc = "connect"
    /\ dbResult = "none"
    /\ spawned = 0
    /\ awaitIdx = 1
    /\ active_threads = 0
    /\ tick = NoTick
    /\ counter = 0
    /\ found_wallets = 0
    /\ dbLock = 0
    /\ store = {}
    /\ saveCalls = 0
    /\ failures = 0
    /\ pc = [w \in Threads |-> "unspawned"]
    /\ wallet = [w \in Threads |-> NoWallet]
    /\ count = [w \in Threads |-> 0]
    /\ total_found = [w \in Threads |-> 0]
    /\ total_generated = [w \in Threads |-> 0]
    /\ retry_count = [w \in Threads |-> 0]
    /\ attempts = [w \in Threads |-> <<>>]
    /\ slept = [w \in Threads |-> 0]
    /\ report = [w \in Threads |-> NoReport]
    /\ progressLog = <<>>
    /\ progress_found = [w \in Threads |-> 0]
    /\ rate = [w \in Threads |-> NoRate]
    /\ unyielded = [w \in Threads |-> 0]
    /\ probe = NoProbe

\* ------------------------------------------------------------------
\* main
\* ------------------------------------------------------------------

\* Mutant of MainConnect: the error of MongoDBClient::new is not propagated.
MainConnect_IgnoreError ==
    /\ mainPc = "connect"
    /\ \E r \in {"ok", "parse_error", "ping_error"} : dbResult' = r
    /\ mainPc' = "spawn"
    /\ UNCHANGED <<spawned, awaitIdx, active_threads, tick>>
    /\ UNCHANGED <<sharedVars, workerVars, probe>>

\* MongoDBClient::new(...).await? : the connection string fails to parse, the
\* ping fails, or the client is returned.  On an error main returns it.
MainConnect ==
    /\ mainPc = "connect"
    /\ \E r \in {"ok", "parse_error", "ping_error"} :
        /\ dbResult' = r
        /\ mainPc' = IF r = "ok" THEN "spawn" ELSE "exit_err"
    /\ UNCHANGED <<spawned, awaitIdx, active_threads, tick>>
    /\ UNCHANGED <<sharedVars, workerVars, probe>>

\* One tokio::spawn of the (0..config.threads) map: the task starts at the
\* head of its loop.
MainSpawn ==
    /\ mainPc = "spawn"
    /\ spawned < NumThreads
    /\ spawned' = spawned + 1
    /\ pc' = [pc EXCEPT ![spawned + 1] = "generate"]
    /\ mainPc' = IF spawned + 1 = NumThreads THEN "spawn_monitor" ELSE "spawn"
    /\ UNCHANGED <<dbResult, awaitIdx, active_threads, tick>>
    /\ UNCHANGED <<wallet, count, progress_found, total_found, total_generated,
                   retry_count,
                   attempts, slept, report, rate, unyielded>>
    /\ UNCHANGED <<sharedVars, probe>>

\* active_threads = AtomicUsize::new(config.threads); the monitor is spawned.
MainSpawnMonitor ==
    /\ mainPc = "spawn_monitor"
    /\ active_threads' = NumThreads
    /\ mainPc' = "await"
    /\ UNCHANGED <<dbResult, spawned, awaitIdx, tick>>
    /\ UNCHANGED <<sharedVars, workerVars, probe>>

\* for handle in handles: handle.await returns only when that task has
\* ended, and a worker task ends only by panicking; then active_threads is
\* decremented and main moves to the next handle.  After the last handle
\* main returns and the runtime drops the monitor.
MainJoin ==
    /\ mainPc = "await"
    /\ awaitIdx \in Threads
    /\ pc[awaitIdx] = "panicked"
    /\ active_threads' = active_threads - 1
    /\ awaitIdx' = awaitIdx + 1
    /\ mainPc' = IF awaitIdx = NumThreads THEN "done" ELSE "await"
    /\ UNCHANGED <<dbResult, spawned, tick>>
    /\ UNCHANGED <<sharedVars, workerVars, probe>>

\* Worker tasks that have not ended.
Running == { w \in Threads : pc[w] \notin {"unspawned", "panicked"} }

\* One tick of the monitor: it loads active_threads, logs it, and warns when
\* it is below config.threads.
MonitorTick ==
    /\ mainPc = "await"
    /\ tick' = [taken |-> TRUE,
                logged |-> active_threads,
                running |-> Cardinality(Running),
                warned |-> active_threads < NumThreads,
                joinPending |-> pc[awaitIdx] = "panicked"]
    /\ UNCHANGED <<mainPc, dbResult, spawned, awaitIdx, active_threads>>
    /\ UNCHANGED <<sharedVars, workerVars, probe>>

\* ------------------------------------------------------------------
\* wallet_generation_loop, one action per step between two shared accesses
\* ------------------------------------------------------------------

\* The generator every worker clones (main.rs:177, 189).
wallet_generator == WalletGenerator_new(DefaultSuffix)

\* Utc::now() as read by worker w's next save_wallet call.  The calls of one
\* match are separated by a sleep of at least 500 ms and the calls of
\* different workers by the guard, so every call reads a time of its own: the
\* reading is named by the call (the iteration's counter value, the attempt).
UtcNow(w) == <<count[w], Len(attempts[w]) + 1>>

\* Mutant of RetryCondition: the bound is tested with <=.
RetryCondition_OffByOne(rc) == rc <= MAX_RETRIES

\* main.rs:102  while retry_count < MAX_RETRIES
RetryCondition(rc) == rc < MAX_RETRIES

\* Mutant of RetriesExhausted: the bound is tested with >.
RetriesExhausted_Late(rc) == rc > MAX_RETRIES

\* main.rs:110  if retry_count >= MAX_RETRIES
RetriesExhausted(rc) == rc >= MAX_RETRIES

\* Mutant of BackoffMs: a constant delay instead of a linear one.
BackoffMs_Constant(rc) == BackoffBaseMs

\* main.rs:120-122  Duration::from_millis(500 * retry_count as u64)
BackoffMs(rc) == BackoffBaseMs * rc

\* Mutant of Generate: the counter is read with load instead of fetch_add.
Generate_NoIncrement(w) ==
    /\ pc[w] = "generate"
    /\ counter < MaxGenerated
    /\ \E kp \in WalletPool : wallet' = [wallet EXCEPT ![w] = kp]
    /\ count' = [count EXCEPT ![w] = counter]
    /\ pc' = [pc EXCEPT ![w] =
                IF counter % ProgressEvery = 0 THEN "progress" ELSE "test"]
    /\ UNCHANGED <<progress_found, total_found, total_generated, retry_count,
                   attempts, slept, report, rate, unyielded>>
    /\ UNCHANGED <<counter, found_wallets, dbLock, store, saveCalls, failures,
                   progressLog>>
    /\ UNCHANGED <<mainVars, probe>>

\* Mutant of GenerateUpTo: the value the worker takes for count was loaded
\* before the increment, possibly before another worker's increment.
GenerateUpTo_LoadThenAdd(w, cap) ==
    /\ pc[w] = "generate"
    /\ counter < cap
    /\ \E kp \in WalletPool : wallet' = [wallet EXCEPT ![w] = kp]
    /\ \E c \in {counter} \cup {n \in {counter - 1} : counter > 0} :
        /\ count' = [count EXCEPT ![w] = c]
        /\ pc' = [pc EXCEPT ![w] =
                    IF c % ProgressEvery = 0 THEN "progress" ELSE "test"]
    /\ counter' = counter + 1
    /\ UNCHANGED <<progress_found, total_found, total_generated, retry_count,
                   attempts, slept, report, rate, unyielded>>
    /\ UNCHANGED <<found_wallets, dbLock, store, saveCalls, failures, progressLog>>
    /\ UNCHANGED <<mainVars, probe>>

\* main.rs:53-59: generate_wallet(), then counter.fetch_add(1, SeqCst), which
\* returns the value before the increment; the progress branch is taken when
\* that value is a multiple of the interval.  The counter is capped at cap.
GenerateUpTo(w, cap) ==
    /\ pc[w] = "generate"
    /\ counter < cap
    /\ \E kp \in WalletPool : wallet' = [wallet EXCEPT ![w] = kp]
    /\ count' = [count EXCEPT ![w] = counter]
    /\ counter' = counter + 1
    /\ pc' = [pc EXCEPT ![w] =
                IF counter % ProgressEvery = 0 THEN "progress" ELSE "test"]
    /\ UNCHANGED <<progress_found, total_found, total_generated, retry_count,
                   attempts, slept, report, rate, unyielded>>
    /\ UNCHANGED <<found_wallets, dbLock, store, saveCalls, failures, progressLog>>
    /\ UNCHANGED <<mainVars, probe>>

\* Mutant of Generate: a keypair is generated only while the guard is free.
Generate_NeedsGuard(w) == dbLock = 0 /\ GenerateUpTo(w, MaxGenerated)

\* One iteration's head in a run of Spec.
Generate(w) == GenerateUpTo(w, MaxGenerated)

\* Keypair::new() panics (the random source fails): the task ends, and with
\* it the restart loop of main.rs:198-218 that runs inside the same task.
Panic(w) ==
    /\ pc[w] = "generate"
    /\ pc' = [pc EXCEPT ![w] = "panicked"]
    /\ UNCHANGED <<wallet, count, progress_found, total_found, total_generated,
                   retry_count,
                   attempts, slept, report, rate, unyielded>>
    /\ UNCHANGED <<mainVars, sharedVars, probe>>

\* Mutant of Progress: the success rate is computed without the test of
\* total_found > 0.
Progress_Unguarded(w) ==
    /\ pc[w] = "progress"
    /\ progress_found' = [progress_found EXCEPT ![w] = found_wallets]
    /\ rate' = [rate EXCEPT ![w] = Divide(count[w], found_wallets)]
    /\ progressLog' = Append(progressLog, count[w])
    /\ pc' = [pc EXCEPT ![w] = "test"]
    /\ UNCHANGED <<wallet, count, total_found, total_generated, retry_count,
                   attempts, slept, report, unyielded>>
    /\ UNCHANGED <<counter, found_wallets, dbLock, store, saveCalls, failures>>
    /\ UNCHANGED <<mainVars, probe>>

\* main.rs:60-75: found_wallets.load(SeqCst) and the progress lines; the
\* success rate count / total_found is computed only if total_found > 0.
Progress(w) ==
    /\ pc[w] = "progress"
    /\ progress_found' = [progress_found EXCEPT ![w] = found_wallets]
    /\ rate' = [rate EXCEPT ![w] =
                IF found_wallets > 0 THEN Divide(count[w], found_wallets)
                                     ELSE NoRate]
    /\ progressLog' = Append(progressLog, count[w])
    /\ pc' = [pc EXCEPT ![w] = "test"]
    /\ UNCHANGED <<wallet, count, total_found, total_generated, retry_count,
                   attempts, slept, report, unyielded>>
    /\ UNCHANGED <<counter, found_wallets, dbLock, store, saveCalls, failures>>
    /\ UNCHANGED <<mainVars, probe>>

\* main.rs:76-79: the progress block, if entered, is left and its
\* total_found goes out of scope; is_vanity_wallet(&wallet).
Test(w) ==
    /\ pc[w] = "test"
    /\ progress_found' = [progress_found EXCEPT ![w] = 0]
    /\ rate' = [rate EXCEPT ![w] = NoRate]
    /\ pc' = [pc EXCEPT ![w] =
                IF is_vanity_wallet(wallet_generator, wallet[w])
                THEN "found" ELSE "yield_check"]
    /\ UNCHANGED <<wallet, count, total_found, total_generated, retry_count,
                   attempts, slept, report, unyielded>>
    /\ UNCHANGED <<mainVars, sharedVars, probe>>

\* main.rs:82: found_wallets.fetch_add(1, SeqCst) + 1.
RecordMatch(w) ==
    /\ pc[w] = "found"
    /\ total_found' = [total_found EXCEPT ![w] = found_wallets + 1]
    /\ found_wallets' = found_wallets + 1
    /\ pc' = [pc EXCEPT ![w] = "announce"]
    /\ UNCHANGED <<wallet, count, progress_found, total_generated, retry_count,
                   attempts, slept, report, rate, unyielded>>
    /\ UNCHANGED <<counter, dbLock, store, saveCalls, failures, progressLog>>
    /\ UNCHANGED <<mainVars, probe>>

\* main.rs:83-102: counter.load(SeqCst), the announcement with the success
\* rate total_generated / total_found, retry_count = 0, the first test of
\* the while condition.
AnnounceMatch(w) ==
    /\ pc[w] = "announce"
    /\ total_generated' = [total_generated EXCEPT ![w] = counter]
    /\ rate' = [rate EXCEPT ![w] = Divide(counter, total_found[w])]
    /\ retry_count' = [retry_count EXCEPT ![w] = 0]
    /\ pc' = [pc EXCEPT ![w] =
                IF RetryCondition(0) THEN "lock" ELSE "yield_check"]
    /\ UNCHANGED <<wallet, count, progress_found, total_found, attempts, slept,
                   report, unyielded>>
    /\ UNCHANGED <<mainVars, sharedVars, probe>>

\* Mutant of AcquireLock: the client is shared without the Mutex.
AcquireLock_NoMutex(w) ==
    /\ pc[w] = "lock"
    /\ dbLock' = w
    /\ saveCalls' = saveCalls + 1
    /\ attempts' = [attempts EXCEPT ![w] =
            Append(@, [doc |-> WalletDocument(wallet[w], UtcNow(w)),
                       result |-> "pending"])]
    /\ total_found' = [total_found EXCEPT ![w] = 0]
    /\ total_generated' = [total_generated EXCEPT ![w] = 0]
    /\ rate' = [rate EXCEPT ![w] = NoRate]
    /\ pc' = [pc EXCEPT ![w] = "save"]
    /\ UNCHANGED <<wallet, count, progress_found, retry_count, slept, report,
                   unyielded>>
    /\ UNCHANGED <<counter, found_wallets, store, failures, progressLog>>
    /\ UNCHANGED <<mainVars, probe>>

\* main.rs:103 and db.rs:44-55: db_client.lock().await returns the guard,
\* save_wallet builds the document and sends the insert.  The totals of the
\* announcement and its success rate are not read again: they leave the
\* state here.
AcquireLock(w) ==
    /\ pc[w] = "lock"
    /\ dbLock = 0
    /\ dbLock' = w
    /\ saveCalls' = saveCalls + 1
    /\ attempts' = [attempts EXCEPT ![w] =
            Append(@, [doc |-> WalletDocument(wallet[w], UtcNow(w)),
                       result |-> "pending"])]
    /\ total_found' = [total_found EXCEPT ![w] = 0]
    /\ total_generated' = [total_generated EXCEPT ![w] = 0]
    /\ rate' = [rate EXCEPT ![w] = NoRate]
    /\ pc' = [pc EXCEPT ![w] = "save"]
    /\ UNCHANGED <<wallet, count, progress_found, retry_count, slept, report,
                   unyielded>>
    /\ UNCHANGED <<counter, found_wallets, store, failures, progressLog>>
    /\ UNCHANGED <<mainVars, probe>>

\* Mutant of SaveWalletReturns: a failed call takes the match back out of
\* the matched counter.
SaveWalletReturns_Rollback(w) ==
    /\ pc[w] = "save"
    /\ failures < MaxFailures
    /\ attempts' = [attempts EXCEPT ![w][Len(attempts[w])].result = "err"]
    /\ failures' = failures + 1
    /\ retry_count' = [retry_count EXCEPT ![w] = @ + 1]
    /\ found_wallets' = found_wallets - 1
    /\ report' = [report EXCEPT ![w].exhausted = @ + 1]
    /\ dbLock' = 0
    /\ pc' = [pc EXCEPT ![w] = "yield_check"]
    /\ UNCHANGED <<wallet, count, progress_found, total_found, total_generated,
                   slept, rate, unyielded>>
    /\ UNCHANGED <<counter, store, saveCalls, progressLog>>
    /\ UNCHANGED <<mainVars, probe>>

\* db.rs:56-59 and main.rs:104-127: insert_one returns.
\*   Ok:  the document is in the collection; success is logged; break.
\*   Err: retry_count += 1; at MAX_RETRIES the failure is logged and the
\*        while condition is tested again; below it the retry is logged
\*        and the worker sleeps.
\* The guard is a temporary of the match scrutinee: it is dropped when the
\* match statement ends, that is on break, after the error! arm, or after
\* the sleep of the warn! arm.
SaveWalletReturns(w) ==
    /\ pc[w] = "save"
    /\ \E ok \in {TRUE} \cup {b \in {FALSE} : failures < MaxFailures} :
        LET n == Len(attempts[w]) IN
        IF ok
        THEN /\ store' = store \cup {attempts[w][n].doc}
             /\ attempts' = [attempts EXCEPT ![w][n].result = "ok"]
             /\ report' = [report EXCEPT ![w].saved = @ + 1]
             /\ dbLock' = 0
             /\ pc' = [pc EXCEPT ![w] = "yield_check"]
             /\ UNCHANGED <<retry_count, failures>>
        ELSE /\ attempts' = [attempts EXCEPT ![w][n].result = "err"]
             /\ failures' = failures + 1
             /\ retry_count' = [retry_count EXCEPT ![w] = @ + 1]
             /\ IF RetriesExhausted(retry_count[w] + 1)
                THEN /\ report' = [report EXCEPT ![w].exhausted = @ + 1]
                     /\ dbLock' = 0
                     /\ pc' = [pc EXCEPT ![w] =
                                IF RetryCondition(retry_count[w] + 1)
                                THEN "lock" ELSE "yield_check"]
                ELSE /\ report' = [report EXCEPT ![w].retrying = @ + 1]
                     /\ dbLock' = dbLock
                     /\ pc' = [pc EXCEPT ![w] = "sleep"]
             /\ UNCHANGED store
    /\ UNCHANGED <<wallet, count, progress_found, total_found, total_generated, slept,
                   rate, unyielded>>
    /\ UNCHANGED <<counter, found_wallets, saveCalls, progressLog>>
    /\ UNCHANGED <<mainVars, probe>>

\* Mutant of WakeUp: the guard outlives the match statement.
WakeUp_KeepsGuard(w) ==
    /\ pc[w] = "sleep"
    /\ slept' = [slept EXCEPT ![w] = @ + BackoffMs(retry_count[w])]
    /\ pc' = [pc EXCEPT ![w] =
                IF RetryCondition(retry_count[w]) THEN "lock" ELSE "yield_check"]
    /\ UNCHANGED <<wallet, count, progress_found, total_found, total_generated,
                   retry_count,
                   attempts, report, rate, unyielded>>
    /\ UNCHANGED <<counter, found_wallets, dbLock, store, saveCalls, failures,
                   progressLog>>
    /\ UNCHANGED <<mainVars, probe>>

\* main.rs:120-123: the sleep of 500 * retry_count ms is over; the match
\* statement ends, the guard is dropped, the while condition is tested again.
WakeUp(w) ==
    /\ pc[w] = "sleep"
    /\ slept' = [slept EXCEPT ![w] = @ + BackoffMs(retry_count[w])]
    /\ dbLock' = 0
    /\ pc' = [pc EXCEPT ![w] =
                IF RetryCondition(retry_count[w]) THEN "lock" ELSE "yield_check"]
    /\ UNCHANGED <<wallet, count, progress_found, total_found, total_generated,
                   retry_count,
                   attempts, report, rate, unyielded>>
    /\ UNCHANGED <<counter, found_wallets, store, saveCalls, failures, progressLog>>
    /\ UNCHANGED <<mainVars, probe>>

\* main.rs:131-134: counter.load(SeqCst) % interval == 0 decides the yield;
\* the iteration ends and its locals (the wallet, count, the totals, the
\* retry loop's state) go out of scope.  unyielded counts the iterations the
\* worker has ended since it last took the yield.
YieldCheck(w) ==
    /\ pc[w] = "yield_check"
    /\ wallet' = [wallet EXCEPT ![w] = NoWallet]
    /\ count' = [count EXCEPT ![w] = 0]
    /\ total_found' = [total_found EXCEPT ![w] = 0]
    /\ total_generated' = [total_generated EXCEPT ![w] = 0]
    /\ retry_count' = [retry_count EXCEPT ![w] = 0]
    /\ attempts' = [attempts EXCEPT ![w] = <<>>]
    /\ slept' = [slept EXCEPT ![w] = 0]
    /\ report' = [report EXCEPT ![w] = NoReport]
    /\ pc' = [pc EXCEPT ![w] =
                IF counter % YieldEvery = 0 THEN "yielding" ELSE "generate"]
    /\ unyielded' = [unyielded EXCEPT ![w] =
                IF counter % YieldEvery = 0 THEN 0 ELSE @ + 1]
    /\ UNCHANGED <<progress_found, rate>>
    /\ UNCHANGED <<mainVars, sharedVars, probe>>

\* tokio::task::yield_now().await returns.
Resume(w) ==
    /\ pc[w] = "yielding"
    /\ pc' = [pc EXCEPT ![w] = "generate"]
    /\ UNCHANGED <<wallet, count, progress_found, total_found, total_generated,
                   retry_count,
                   attempts, slept, report, rate, unyielded>>
    /\ UNCHANGED <<mainVars, sharedVars, probe>>

WorkerStep(w) ==
    \/ Generate(w)
    \/ Progress(w)
    \/ Test(w)
    \/ RecordMatch(w)
    \/ AnnounceMatch(w)
    \/ AcquireLock(w)
    \/ SaveWalletReturns(w)
    \/ WakeUp(w)
    \/ YieldCheck(w)
    \/ Resume(w)

Next ==
    \/ MainConnect
    \/ MainSpawn
    \/ MainSpawnMonitor
    \/ MainJoin
    \/ MonitorTick
    \/ \E w \in Threads : WorkerStep(w)
    \/ \E w \in Threads : Panic(w)

Spec == Init /\ [][Next]_vars

\* ------------------------------------------------------------------
\* The predicate on its own: one generator built from one --suffix, applied
\* to one address.
\* ------------------------------------------------------------------

PredInit ==
    /\ mainPc = "connect"
    /\ dbResult = "none"
    /\ spawned = 0
    /\ awaitIdx = 1
    /\ active_threads = 0
    /\ tick = NoTick
    /\ counter = 0
    /\ found_wallets = 0
    /\ dbLock = 0
    /\ store = {}
    /\ saveCalls = 0
    /\ failures = 0
    /\ pc = [w \in Threads |-> "unspawned"]
    /\ wallet = [w \in Threads |-> NoWallet]
    /\ count = [w \in Threads |-> 0]
    /\ total_found = [w \in Threads |-> 0]
    /\ total_generated = [w \in Threads |-> 0]
    /\ retry_count = [w \in Threads |-> 0]
    /\ attempts = [w \in Threads |-> <<>>]
    /\ slept = [w \in Threads |-> 0]
    /\ report = [w \in Threads |-> NoReport]
    /\ progressLog = <<>>
    /\ progress_found = [w \in Threads |-> 0]
    /\ rate = [w \in Threads |-> NoRate]
    /\ unyielded = [w \in Threads |-> 0]
    /\ \E sfx \in Suffixes, addr \in Addresses :
            probe = [applied |-> FALSE, suffix |-> sfx, address |-> addr]

\* WalletGenerator::new(&config.suffix) followed by is_vanity_wallet on a
\* keypair with the probed address.
ApplyPredicate ==
    /\ ~probe.applied
    /\ probe' = [applied |-> TRUE,
                 suffix |-> probe.suffix,
                 address |-> probe.address,
                 result |-> is_vanity_wallet(WalletGenerator_new(probe.suffix),
                                             probe.address)]
    /\ UNCHANGED <<mainVars, sharedVars, workerVars>>

PredNext == ApplyPredicate

PredSpec == PredInit /\ [][PredNext]_vars


\* ------------------------------------------------------------------
\* Properties
\* ------------------------------------------------------------------

\* The pattern a run of Spec is configured with.
Pattern == DefaultSuffix

\* Worker w's current iteration found a match and has entered the match branch.
InMatchBranch(w) == pc[w] \in {"announce", "lock", "save", "sleep"}

\* Results of the save_wallet calls of w's current match, in order.
Results(w) == [k \in 1..Len(attempts[w]) |-> attempts[w][k].result]

\* C1: in every reachable state the matched counter is at most the generated
\* counter, and no step decreases (or resets) either counter.
C1_CountersOrderedAndMonotonic ==
    /\ [](found_wallets <= counter)
    /\ [][counter' >= counter /\ found_wallets' >= found_wallets]_vars

\* C1 witness: two workers have both generated and both matched.
C1_Witness ==
    /\ counter = 2
    /\ found_wallets = 2
    /\ \A w \in Threads : pc[w] \notin {"unspawned", "generate"}

\* C2: for every match the retry loop makes at most MAX_RETRIES = 3
\* save_wallet calls, every call before the last one failed (no call follows
\* a success), the loop is left only after at least one call, and when three
\* calls have failed the exhaustion is logged exactly once and the worker has
\* left the loop and goes on with its iteration.
C2_BoundedRetry ==
    \A w \in Threads :
        LET n == Len(attempts[w]) IN
        /\ n <= 3
        /\ \A k \in 1..(n - 1) : Results(w)[k] = "err"
        /\ report[w].exhausted <= 1
        /\ report[w].saved <= 1
        /\ (pc[w] = "yield_check" /\ EndsWith(wallet[w], Pattern)) =>
                /\ n >= 1
                /\ \/ Results(w)[n] = "ok"
                   \/ n = 3 /\ Results(w)[n] = "err"
        /\ (n = 3 /\ Results(w)[3] = "err") =>
                /\ report[w].exhausted = 1
                /\ report[w].saved = 0
                /\ pc[w] = "yield_check"
        /\ report[w].exhausted = 1 => (n = 3 /\ Results(w)[3] = "err")
        /\ pc[w] = "save" => (n >= 1 /\ Results(w)[n] = "pending")
        /\ pc[w] \in {"lock", "sleep"} => n < 3

\* C2 witness: a worker whose three calls all failed has left the loop.
C2_Witness ==
    \E w \in Threads :
        /\ Results(w) = <<"err", "err", "err">>
        /\ pc[w] = "yield_check"
        /\ report[w].exhausted = 1

\* C3: when the first two save_wallet calls of a match fail and the third
\* succeeds, success is logged once and no exhaustion, exactly three calls
\* were made, and the third call was made after at least 500 + 1000 ms of
\* sleep.
C3_FailTwiceThenSucceed ==
    \A w \in Threads :
        /\ Len(attempts[w]) >= 3 => slept[w] >= 500 + 1000
        /\ (Len(attempts[w]) >= 3 /\ Results(w)[3] = "ok") =>
                /\ Results(w) = <<"err", "err", "ok">>
                /\ report[w].saved = 1
                /\ report[w].exhausted = 0
                /\ pc[w] = "yield_check"

\* C3 witness: a third call succeeded after two failures.
C3_Witness ==
    \E w \in Threads :
        /\ Results(w) = <<"err", "err", "ok">>
        /\ report[w].saved = 1
        /\ slept[w] = 1500

\* C4 (as claimed): for every address and every configured suffix, the
\* predicate of the generator built from that suffix is true exactly when the
\* address ends with that suffix, compared case-sensitively.
C4_MatchesConfiguredSuffix ==
    probe.applied => (probe.result <=> EndsWith(probe.address, probe.suffix))

\* C5: while no save_wallet call has failed, every keypair whose test was
\* true gets exactly one save_wallet call and no other keypair gets any: the
\* calls made equal the matches counted minus the workers between the count
\* and their call, every returned call left one document, every document
\* sent or stored carries the worker's own keypair, whose address ends with
\* the pattern, and once no worker is in the match branch the number of calls,
\* the number of documents and the number of matches are equal.
C5_OneSavePerMatch ==
    failures = 0 =>
        /\ \A w \in Threads :
            /\ Len(attempts[w]) <= 1
            /\ \A k \in 1..Len(attempts[w]) :
                /\ attempts[w][k].doc.public_key = wallet[w]
                /\ EndsWith(wallet[w], Pattern)
            /\ pc[w] = "save" => Len(attempts[w]) = 1
        /\ \A d \in store : EndsWith(d.public_key, Pattern)
        /\ saveCalls + Cardinality({w \in Threads : pc[w] \in {"announce", "lock"}})
                = found_wallets
        /\ Cardinality(store) + Cardinality({w \in Threads : pc[w] = "save"})
                = saveCalls
        /\ (\A w \in Threads : ~InMatchBranch(w) /\ pc[w] # "found") =>
                /\ saveCalls = found_wallets
                /\ Cardinality(store) = found_wallets

\* C5 witness: two matches were found, two calls were made, none failed, two
\* documents are stored, and both workers have left the match branch.
C5_Witness ==
    /\ failures = 0
    /\ found_wallets = 2
    /\ saveCalls = 2
    /\ Cardinality(store) = 2
    /\ \A w \in Threads : ~InMatchBranch(w)

\* C7: at most one worker is inside save_wallet at any time.
C7_SaveWalletExclusive ==
    /\ Cardinality({w \in Threads : pc[w] = "save"}) <= 1
    /\ \A w \in Threads : pc[w] = "save" => dbLock = w

\* C7 witness: one worker is inside save_wallet while another waits for the
\* guard.
C7_Witness ==
    \E v, w \in Threads :
        /\ v # w
        /\ pc[v] = "save"
        /\ pc[w] = "lock"

\* C10: when MongoDBClient::new has failed, main has returned the error, no
\* worker and no monitor was started, and both counters are zero.
C10_NoPartialStartup ==
    dbResult \in {"parse_error", "ping_error"} =>
        /\ mainPc = "exit_err"
        /\ spawned = 0
        /\ \A w \in Threads : pc[w] = "unspawned"
        /\ ~tick.taken
        /\ active_threads = 0
        /\ counter = 0
        /\ found_wallets = 0
        /\ ~ENABLED Next

\* C10 witness: the ping failed and main has returned.
C10_Witness ==
    /\ dbResult = "ping_error"
    /\ mainPc = "exit_err"

\* C8 (as claimed): a worker whose loop has ended abnormally is taken up
\* again by its supervising loop: it can take a further step (the cooldown,
\* then the loop under the same thread_id).
C8_RestartedAfterError ==
    \A w \in Threads : pc[w] = "panicked" => ENABLED WorkerStep(w)

\* C9 (as claimed): at a tick at which some worker task has ended and main
\* has no ended handle left to take note of, the monitor logs the number of
\* tasks still running and warns.
C9_MonitorReportsEndedWorker ==
    (tick.taken /\ tick.running < NumThreads /\ ~tick.joinPending) =>
        /\ tick.logged = tick.running
        /\ tick.warned

\* ------------------------------------------------------------------
\* Fair runs without a panic: main starts the workers, and every worker task
\* that stays able to take a step eventually takes one (the runtime polls
\* every ready task; a store call and a sleep return).  Nothing forces a store
\* outcome.  Only weak fairness is assumed, also for a worker waiting for the
\* guard, although tokio's Mutex, which hands the guard over in FIFO order,
\* would justify strong fairness there.  The monitor, which reads
\* active_threads alone, is left out.
\* ------------------------------------------------------------------

FairNext ==
    \/ MainConnect
    \/ MainSpawn
    \/ MainSpawnMonitor
    \/ \E w \in Threads : WorkerStep(w)

Fairness == \A w \in Threads : WF_vars(WorkerStep(w))

FairSpec == Init /\ [][FairNext]_vars /\ Fairness

\* Worker w is in the persist-retry phase of a match.
InPersist(w) == pc[w] \in {"lock", "save", "sleep"}

\* Worker w has just incremented the generated counter: these positions are
\* entered only by Generate(w).
JustGenerated(w) == pc[w] \in {"progress", "test"}

ProgressLogged(w) == pc[w] = "test" /\ count[w] % ProgressEvery = 0

\* Worker w has just logged a match announcement: "Total wallets generated",
\* "Total vanity wallets found" (main.rs:90-91).
MatchAnnounced(w) == pc[w] = "lock" /\ attempts[w] = <<>>

\* C11 (as claimed): in every progress update the Found value logged is at
\* most the Generated value logged with it, and in every match announcement
\* the total found logged is at most the total generated logged with it.
C11_LoggedPairsOrdered ==
    \A w \in Threads :
        /\ ProgressLogged(w) => progress_found[w] <= count[w]
        /\ MatchAnnounced(w) => total_found[w] <= total_generated[w]

\* The half of C11 that holds: the pair of a match announcement is ordered.
AnnouncedPairOrdered ==
    \A w \in Threads :
        MatchAnnounced(w) => total_found[w] <= total_generated[w]

\* ------------------------------------------------------------------
\* Backoff
\* ------------------------------------------------------------------

\* Number of failed save_wallet calls of w's current match.
Failed(w) == Cardinality({k \in 1..Len(attempts[w]) : attempts[w][k].result = "err"})

\* Number of backoff sleeps w has completed for its current match if it
\* sleeps after the 1st and the 2nd failed call and at no other point.
SleepsDue(w) ==
    IF pc[w] = "sleep" THEN Failed(w) - 1
    ELSE IF Failed(w) >= 3 THEN 2
    ELSE Failed(w)

\* C12: the worker sleeps only after a failed call that is the 1st or 2nd
\* of its match, and the time slept for a match is 0 ms before any sleep,
\* 500 ms after the first and 500 + 1000 ms after the second: 500 * k ms after
\* the k-th failure, nothing after a success, nothing after the 3rd failure.
C12_LinearBackoff ==
    \A w \in Threads :
        /\ pc[w] = "sleep" =>
                /\ Failed(w) \in {1, 2}
                /\ Failed(w) = Len(attempts[w])
                /\ retry_count[w] = Failed(w)
        /\ slept[w] = CASE SleepsDue(w) = 0 -> 0
                         [] SleepsDue(w) = 1 -> 500
                         [] SleepsDue(w) = 2 -> 500 + 1000

\* C12 witness: three calls failed, the worker slept 500 and 1000 ms, and it
\* has left the retry loop without a third sleep.
C12_Witness ==
    \E w \in Threads :
        /\ Failed(w) = 3
        /\ slept[w] = 1500
        /\ pc[w] = "yield_check"
        /\ dbLock # w

\* ------------------------------------------------------------------
\* The guard
\* ------------------------------------------------------------------

\* C13 (as claimed): the guard is held for one save_wallet call only: its
\* holder is inside save_wallet, and a worker sleeping in backoff does not
\* hold it, so a worker waiting for the guard is never kept waiting by a
\* worker that only sleeps.
C13_GuardHeldOnlyDuringCall ==
    \A w \in Threads :
        /\ dbLock = w => pc[w] = "save"
        /\ pc[w] = "sleep" => dbLock # w
        /\ pc[w] = "lock" =>
                \/ ENABLED AcquireLock(w)
                \/ \E v \in Threads : pc[v] = "save"

\* Worker w is at a step that generates, counts, logs, tests or yields.
OutsidePersist(w) ==
    pc[w] \in {"generate", "progress", "test", "found", "announce",
               "yield_check", "yielding"}

\* Worker w is between the test of one keypair and the generation of the next.
BeforeGenerate(w) == pc[w] \in {"yield_check", "yielding", "generate"}

\* C14: while another worker is in its persist-retry phase (waiting for the
\* guard, inside save_wallet, or sleeping in backoff), a worker outside that
\* phase can always take its next step (short of the model's cap on the
\* generated counter), and under fair scheduling a worker that has finished an
\* iteration increments the generated counter again.
C14_GenerationNeedsNoGuard ==
    /\ [](\A w \in Threads :
            ( /\ OutsidePersist(w)
              /\ \E v \in Threads \ {w} : InPersist(v)
              /\ pc[w] = "generate" => counter < MaxGenerated )
            => ENABLED WorkerStep(w))
    /\ \A w \in Threads :
            BeforeGenerate(w) ~> (JustGenerated(w) \/ counter = MaxGenerated)

\* C14 witness: one worker sleeps in backoff with the guard held while
\* another tests the keypair it generated after the sleeper's.
C14_Witness ==
    \E v, w \in Threads :
        /\ v # w
        /\ pc[v] = "sleep"
        /\ dbLock = v
        /\ pc[w] = "test"
        /\ count[w] > count[v]

\* ------------------------------------------------------------------
\* Runs in which the store accepts every insert, with a higher cap on the
\* generated counter; no panic, and the monitor is left out.
\* ------------------------------------------------------------------

CountStep(w) ==
    \/ GenerateUpTo(w, MaxCounted)
    \/ Progress(w)
    \/ Test(w)
    \/ RecordMatch(w)
    \/ AnnounceMatch(w)
    \/ AcquireLock(w)
    \/ SaveWalletReturns(w) /\ failures' = failures
    \/ YieldCheck(w)
    \/ Resume(w)

CountNext ==
    \/ MainConnect
    \/ MainSpawn
    \/ MainSpawnMonitor
    \/ \E w \in Threads : CountStep(w)

CountSpec == Init /\ [][CountNext]_vars

\* Worker w holds the value its last counter.fetch_add returned.
HoldsCount(w) ==
    pc[w] \in {"progress", "test", "found", "announce", "lock", "save", "sleep",
               "yield_check"}

\* The multiples of the progress interval among the values the counter has
\* returned so far.
BoundariesReached == {m \in 0..(counter - 1) : m % ProgressEvery = 0}

\* The Generated values of the progress updates logged so far.
BoundariesLogged == {progressLog[i] : i \in 1..Len(progressLog)}

\* C15: no counter value is held by two workers; every progress update logged
\* is for a boundary reached; no boundary is logged twice; and every boundary
\* reached either has been logged or is held by the one worker that is about
\* to log it, never both.
C15_OneUpdatePerBoundary ==
    /\ \A v, w \in Threads :
            (v # w /\ HoldsCount(v) /\ HoldsCount(w)) => count[v] # count[w]
    /\ BoundariesLogged \subseteq BoundariesReached
    /\ Cardinality(BoundariesLogged) = Len(progressLog)
    /\ \A m \in BoundariesReached :
            (m \in BoundariesLogged)
                # (\E w \in Threads : pc[w] = "progress" /\ count[w] = m)

\* C15 witness: two boundaries were reached while two workers ran, and each
\* was logged once.
C15_Witness ==
    /\ Cardinality(BoundariesReached) = 2
    /\ Len(progressLog) = 2
    /\ Cardinality({w \in Threads : HoldsCount(w)}) >= 2

\* C16 (as claimed): a worker takes the yield at least once in every
\* YieldEvery iterations, as a worker running alone does: no worker ends
\* YieldEvery iterations in a row without yielding, whatever the other
\* workers do.
C16_YieldsEveryInterval ==
    \A w \in Threads : unyielded[w] < YieldEvery

\* ------------------------------------------------------------------
\* Order of the increments
\* ------------------------------------------------------------------

\* Number of matches whose worker is past its increment of found_wallets and
\* still in the same iteration.
MatchesInHand ==
    Cardinality({w \in Threads :
        \/ pc[w] \in {"announce", "lock", "save", "sleep"}
        \/ pc[w] = "yield_check" /\ attempts[w] # <<>>})

\* C17: when a worker evaluates the predicate its own increment of the
\* generated counter is done; when it makes its first save_wallet call its
\* own increment of the matched counter is done and every match in hand is
\* counted; and no step taken from inside save_wallet or from the backoff
\* sleep (a success, a failure, the exhaustion of the attempts) changes
\* either counter.
C17_CountedBeforeUseNoRollback ==
    /\ [](\A w \in Threads :
            /\ HoldsCount(w) => counter >= count[w] + 1
            /\ pc[w] = "lock" /\ attempts[w] = <<>> => total_found[w] >= 1
            /\ MatchesInHand <= found_wallets)
    /\ [][\A w \in Threads :
            (pc[w] \in {"save", "sleep"} /\ pc'[w] # pc[w]) =>
                /\ counter' = counter
                /\ found_wallets' = found_wallets]_vars

\* C17 witness: a match's three save_wallet calls have all failed, and its
\* attempt and the match are still counted.
C17_Witness ==
    \E w \in Threads :
        /\ Failed(w) = 3
        /\ report[w].exhausted = 1
        /\ counter = 1
        /\ found_wallets = 1

\* ------------------------------------------------------------------
\* The record sent
\* ------------------------------------------------------------------

\* C18 (as claimed): every save_wallet call of one match sends the record the
\* first call sent: the same public key, the same encoded private key and
\* the same creation timestamp.
C18_RetriesSendSameRecord ==
    \A w \in Threads :
        \A k \in 1..Len(attempts[w]) : attempts[w][k].doc = attempts[w][1].doc

\* The part of C18 that holds: every call of one match sends the keys of the
\* keypair that matched.
RetriesSendSameKeys ==
    \A w \in Threads :
        \A k \in 1..Len(attempts[w]) :
            /\ attempts[w][k].doc.public_key = wallet[w]
            /\ attempts[w][k].doc.private_key = get_private_key_string(wallet[w])

\* ------------------------------------------------------------------
\* Success rates
\* ------------------------------------------------------------------

\* C19: no success rate is computed with a zero divisor: the progress update
\* divides exactly when the Found value it loaded is positive, and by that
\* value; the match announcement always divides, by the matched counter as
\* it was just after this worker's own increment, which is at least 1.
C19_NoDivisionByZero ==
    \A w \in Threads :
        /\ rate[w].computed => rate[w].divisor > 0
        /\ ProgressLogged(w) =>
                /\ rate[w].computed <=> progress_found[w] > 0
                /\ rate[w].computed => rate[w].divisor = progress_found[w]
        /\ MatchAnnounced(w) =>
                /\ rate[w].computed
                /\ rate[w].divisor = total_found[w]
                /\ rate[w].divisor >= 1

\* C19 witness: one worker has announced a match and computed its rate while
\* another has logged a progress update with a rate, having loaded a
\* positive Found value.
C19_Witness ==
    \E v, w \in Threads :
        /\ v # w
        /\ MatchAnnounced(v)
        /\ rate[v].computed
        /\ ProgressLogged(w)
        /\ rate[w].computed

=============================================================================
